---- MODULE Spec2Model ----
(***************************************************************************)
(* State-machine model of the CryptoPunks subgraph mappings: the eight     *)
(* event handlers of src/crypto-punks-market.ts and the helpers of         *)
(* utils/helpers.ts, acting on the entity store (Account, Punk, Listing,   *)
(* Bid, Event, State, Transfer).                                           *)
(*                                                                         *)
(* Time is measured in buckets: a block timestamp is the number of its     *)
(* bucket, and timestampToId(ts, i) is the bucket i before it.  The USD    *)
(* oracle fields (usd) and the block number are written by the handlers    *)
(* and never read by them; they are left out of the entities.              *)
(***************************************************************************)
EXTENDS Integers, Sequences, FiniteSets, TLC

(* ------------------------------------------------------------------ *)
(* Bounds of the model                                                 *)
(* ------------------------------------------------------------------ *)
\* Steps (events and transaction boundaries) explored after the initial store.
MaxSteps == 2

(* ------------------------------------------------------------------ *)
(* Program constants                                                   *)
(* ------------------------------------------------------------------ *)
\* getOrCreateState: `while (!prevState && i <= 30)`
LookbackCap == 30
\* getFloorFromActiveListings: `if (listings.length < 5) return prevFloor`
FloorMinListings == 5

\* Addresses as the chain delivers them (raw bytes, here small numbers):
\* the zero address, an ordinary account and the wrapper contract.
Address == {0, 10, 183}

\* Address.toHexString(): lower-case hex.
toHexString(a) ==
    CASE a = 0 -> "0x0"
      [] a = 10 -> "0xa"
      [] a = 183 -> "0xb7"

\* String.toLowerCase() on the account ids the store can hold.
toLowerCase(s) ==
    CASE s = "0xA" -> "0xa"
      [] s = "0xB7" -> "0xb7"
      [] OTHER -> s

ZERO_ADDRESS == "0x0"
WRAPPER_ADDRESS == "0xb7"

\* Punk indices of the model, and BigInt.toString() on them.
PunkIndex == {1, 2}
toString(n) ==
    CASE n = 1 -> "1"
      [] n = 2 -> "2"
      [] n = 3 -> "3"
      [] n = 4 -> "4"
      [] n = 5 -> "5"
      [] n = 6 -> "6"

\* Wei values carried by offers, bids and sales.
Values == {0, 1, 2}

\* A nullable reference or value: << >> is null, <<x>> is x.
Null == << >>
Some(x) == <<x>>

(* ------------------------------------------------------------------ *)
(* The store: load / save / remove                                     *)
(* ------------------------------------------------------------------ *)
Has(table, id) == id \in DOMAIN table
Save(table, id, entity) == (id :> entity) @@ table
Remove(table, id) == [k \in (DOMAIN table) \ {id} |-> table[k]]

EmptyStore ==
    [accounts  |-> << >>,    \* Account id  -> [punks]
     punks     |-> << >>,    \* Punk id     -> [owner, wrapped]
     listings  |-> << >>,    \* Listing id  -> [value, isPrivate, fromAccount, toAccount]
     bids      |-> << >>,    \* Bid id      -> [value, fromAccount]
     events    |-> << >>,    \* Event id    -> [type, tokenId, fromAccount, toAccount, value, blockTimestamp]
     states    |-> << >>,    \* State id    -> snapshot record
     transfers |-> << >>]    \* Transfer id -> [from, to, tokenId]

\* Sequencing of the statements of a function: body(x) with x the value of e.
With(e, body(_)) == CHOOSE r \in {body(x) : x \in {e}} : TRUE

\* Array.filter(n => n != id)
FilterOut(arr, id) == SelectSeq(arr, LAMBDA n : n # id)
\* Array.indexOf(id) > -1, Array.includes(id)
Includes(arr, id) == \E i \in 1..Len(arr) : arr[i] = id

(* ------------------------------------------------------------------ *)
(* utils/helpers.ts                                                    *)
(* ------------------------------------------------------------------ *)
\* getGlobalId without the log index: the transaction hash alone.
getGlobalId_TxOnly(ev) == <<ev.txHash, 0>>

getGlobalId(ev) == <<ev.txHash, ev.logIndex>>

timestampToId(ts, lookback) == ts - lookback

getOrCreateAccount(S, id) ==
    IF Has(S.accounts, id) THEN S
    ELSE [S EXCEPT !.accounts = Save(@, id, [punks |-> << >>])]

getOrCreatePunk(S, id) ==
    IF Has(S.punks, id) THEN S
    ELSE [S EXCEPT !.punks = Save(@, id, [owner |-> ZERO_ADDRESS, wrapped |-> FALSE])]

\* The loop of getFloorFromActiveListings over listings[i..], newFloor nullable.
RECURSIVE floorLoop(_, _, _, _)
floorLoop(S, listings, i, newFloor) ==
    IF i > Len(listings) THEN newFloor
    ELSE IF /\ Has(S.listings, listings[i])
            /\ S.listings[listings[i]].value > 0
            /\ (newFloor = Null \/ S.listings[listings[i]].value < newFloor[1])
         THEN floorLoop(S, listings, i + 1, Some(S.listings[listings[i]].value))
         ELSE floorLoop(S, listings, i + 1, newFloor)

\* getFloorFromActiveListings with the thin-market threshold off by one (<= 5).
getFloorFromActiveListings_OffByOne(S, state) ==
    LET prevId    == timestampToId(state.timestamp, 1)
        prevFloor == IF Has(S.states, prevId) THEN S.states[prevId].floor ELSE 0
        listings  == state.activeListings
        newFloor  == floorLoop(S, listings, 1, Null)
    IN  IF Len(listings) <= FloorMinListings THEN prevFloor
        ELSE IF newFloor # Null THEN newFloor[1] ELSE 0

getFloorFromActiveListings(S, state) ==
    LET prevId    == timestampToId(state.timestamp, 1)
        prevFloor == IF Has(S.states, prevId) THEN S.states[prevId].floor ELSE 0
        listings  == state.activeListings
        newFloor  == floorLoop(S, listings, 1, Null)
    IN  IF Len(listings) < FloorMinListings THEN prevFloor
        ELSE IF newFloor # Null THEN newFloor[1] ELSE 0

\* The do-while of getOrCreateState: the nearest State among lookbacks i..30.
\* findPrevState looking at the immediately preceding bucket only.
findPrevState_OneBucket(S, ts, i) ==
    IF Has(S.states, timestampToId(ts, i)) THEN Some(S.states[timestampToId(ts, i)])
    ELSE Null

RECURSIVE findPrevState(_, _, _)
findPrevState(S, ts, i) ==
    IF Has(S.states, timestampToId(ts, i)) THEN Some(S.states[timestampToId(ts, i)])
    ELSE IF i + 1 <= LookbackCap THEN findPrevState(S, ts, i + 1)
    ELSE Null

\* getOrCreateState copying the period counters of the previous Snapshot too.
getOrCreateState_CarriesCounters(S, ts) ==
    LET id == timestampToId(ts, 0) IN
    With(findPrevState(S, ts, 1), LAMBDA prevState :
        LET state == IF prevState # Null
                     THEN [prevState[1] EXCEPT !.timestamp = ts, !.topBid = Null,
                                               !.topSale = Null, !.floor = 0]
                     ELSE [timestamp |-> ts, topBid |-> Null, topSale |-> Null,
                           listings |-> 0, delistings |-> 0, bids |-> 0, sales |-> 0,
                           volume |-> 0, floor |-> 0, owners |-> 0, activeListings |-> << >>]
        IN  IF Has(S.states, id) THEN S.states[id]
            ELSE IF Len(state.activeListings) > 0
                 THEN [state EXCEPT !.floor = getFloorFromActiveListings(S, state)]
                 ELSE state)

\* Returns the State entity (loaded, or constructed and not yet saved).
getOrCreateState(S, ts) ==
    LET id == timestampToId(ts, 0) IN
    With(findPrevState(S, ts, 1), LAMBDA prevState :
        LET prevListings == IF prevState # Null THEN prevState[1].activeListings ELSE << >>
            prevOwners   == IF prevState # Null THEN prevState[1].owners ELSE 0
            state        == [timestamp      |-> ts,
                             topBid         |-> Null,
                             topSale        |-> Null,
                             listings       |-> 0,
                             delistings     |-> 0,
                             bids           |-> 0,
                             sales          |-> 0,
                             volume         |-> 0,
                             floor          |-> 0,
                             owners         |-> prevOwners,
                             activeListings |-> prevListings]
        IN  IF Has(S.states, id) THEN S.states[id]
            ELSE IF Len(prevListings) > 0
                 THEN [state EXCEPT !.floor = getFloorFromActiveListings(S, state)]
                 ELSE state)

saveState(S, state) ==
    [S EXCEPT !.states = Save(@, timestampToId(state.timestamp, 0), state)]

updateOwnership(S, blockTimestamp, punkId, toAddress, fromAddress) ==
    With(getOrCreateAccount(S, toAddress), LAMBDA S1 :
    With(getOrCreateAccount(S1, fromAddress), LAMBDA S2 :
    With(getOrCreateState(S2, blockTimestamp), LAMBDA state :
        LET toHolderPunks   == S2.accounts[toAddress].punks
            fromHolderPunks == S2.accounts[fromAddress].punks
            afterFrom  == IF Len(fromHolderPunks) = 1 THEN state.owners - 1 ELSE state.owners
            prevOwners == IF Len(toHolderPunks) = 0 THEN afterFrom + 1 ELSE afterFrom
        IN
        With(saveState(S2, [state EXCEPT !.owners = prevOwners]), LAMBDA S3 :
        \* fromAccount.save() then toAccount.save(): the receiver's copy is written last
        With([S3 EXCEPT !.accounts = Save(@, fromAddress, [punks |-> FilterOut(fromHolderPunks, punkId)])], LAMBDA S4 :
        With([S4 EXCEPT !.accounts = Save(@, toAddress, [punks |-> Append(toHolderPunks, punkId)])], LAMBDA S5 :
        With(getOrCreatePunk(S5, punkId), LAMBDA S6 :
            [S6 EXCEPT !.punks = Save(@, punkId, [S6.punks[punkId] EXCEPT !.owner = toAddress])])))))))

loadPrevBidEvent(S, topBid) ==
    IF topBid = Null THEN Null
    ELSE IF Has(S.events, topBid[1]) THEN Some(S.events[topBid[1]]) ELSE Null

loadPrevSaleEvent(S, topSale) ==
    IF topSale = Null THEN Null
    ELSE IF Has(S.events, topSale[1]) THEN Some(S.events[topSale[1]]) ELSE Null

\* setPunkNoLongerForSale ignoring removeBid: the Bid is never removed.
setPunkNoLongerForSale_KeepsBid(S, punkId, removeBid) ==
    IF Has(S.listings, punkId) THEN [S EXCEPT !.listings = Remove(@, punkId)] ELSE S

setPunkNoLongerForSale(S, punkId, removeBid) ==
    LET S1 == IF Has(S.listings, punkId) THEN [S EXCEPT !.listings = Remove(@, punkId)] ELSE S
    IN  IF removeBid /\ Has(S1.bids, punkId) THEN [S1 EXCEPT !.bids = Remove(@, punkId)] ELSE S1

(* ------------------------------------------------------------------ *)
(* crypto-punks-market.ts: the handlers, as functions of the store and *)
(* the event [kind, punkIndex, value, from, to, txFrom, txHash,        *)
(* logIndex, timestamp]; from and to are the event's address           *)
(* parameters (from/to, fromAddress/toAddress), txFrom the sender of   *)
(* the transaction                                                     *)
(* ------------------------------------------------------------------ *)
newEvent(type, ev, fromAccount, toAccount, value) ==
    [type           |-> type,
     tokenId        |-> ev.punkIndex,
     fromAccount    |-> fromAccount,
     toAccount      |-> toAccount,
     value          |-> value,
     blockTimestamp |-> ev.timestamp]

saveEvent(S, ev, evnt) == [S EXCEPT !.events = Save(@, getGlobalId(ev), evnt)]

handleAssign(S, ev) ==
    LET toId == toHexString(ev.to) IN
    With(getOrCreateAccount(S, ZERO_ADDRESS), LAMBDA S1 :
    With(getOrCreateAccount(S1, toId), LAMBDA S2 :
    With(saveEvent(S2, ev, newEvent("Claimed", ev, ZERO_ADDRESS, toId, 0)), LAMBDA S3 :
        updateOwnership(S3, ev.timestamp, toString(ev.punkIndex), toId, ZERO_ADDRESS))))

handleTransfer(S, ev) ==
    [S EXCEPT !.transfers =
        Save(@, ev.txHash, [from |-> toHexString(ev.from), to |-> toHexString(ev.to), tokenId |-> Null])]

\* bidderIs accepting any account as the bidder.
bidderIs_Anyone(bidder, id) == TRUE

\* bidderIs accepting no account as the bidder.
bidderIs_Nobody(bidder, id) == FALSE

\* `bid.fromAccount.toLowerCase() == toAccount.id.toLowerCase()`
bidderIs(bidder, id) == toLowerCase(bidder) = toLowerCase(id)

handlePunkTransfer(S, ev) ==
    LET punkTransferTokenId == toString(ev.punkIndex)
        from == toHexString(ev.from)
        to   == toHexString(ev.to)
        isWrapped   == (to = WRAPPER_ADDRESS)
        isUnwrapped == (from = WRAPPER_ADDRESS)
        eventType == IF isWrapped THEN "Wrapped" ELSE IF isUnwrapped THEN "Unwrapped" ELSE "Transferred"
        evnt == newEvent(eventType, ev, from, to, 0)
    IN
    With(getOrCreateAccount(S, from), LAMBDA S1 :
    With(getOrCreateAccount(S1, to), LAMBDA S2 :
    With(getOrCreatePunk(S2, punkTransferTokenId), LAMBDA S3 :
    With([S3 EXCEPT !.punks =
            Save(@, punkTransferTokenId, [S3.punks[punkTransferTokenId] EXCEPT !.wrapped = isWrapped])], LAMBDA S4 :
        LET hasBid == Has(S4.bids, punkTransferTokenId)
            newOwnerIsBidder ==
                hasBid /\ bidderIs(S4.bids[punkTransferTokenId].fromAccount, to)
        IN
        With(IF hasBid THEN getOrCreateAccount(S4, S4.bids[punkTransferTokenId].fromAccount) ELSE S4, LAMBDA S5 :
        With(setPunkNoLongerForSale(S5, punkTransferTokenId, newOwnerIsBidder), LAMBDA S6 :
        With(getOrCreateState(S6, ev.timestamp), LAMBDA state :
            LET newActiveListings ==
                    IF Includes(state.activeListings, punkTransferTokenId)
                    THEN FilterOut(state.activeListings, punkTransferTokenId)
                    ELSE state.activeListings
            IN
            With([state EXCEPT !.activeListings = newActiveListings], LAMBDA state1 :
            With([state1 EXCEPT !.floor = getFloorFromActiveListings(S6, state1)], LAMBDA state2 :
            With(saveState(S6, state2), LAMBDA S7 :
            With(saveEvent(S7, ev, evnt), LAMBDA S8 :
                updateOwnership(S8, ev.timestamp, punkTransferTokenId, to, from))))))))))))

\* newTop without the comparison: every candidate becomes the top.
newTop_AlwaysReplace(prevEvent, top, value, evntId) == Some(evntId)

\* newTop with ties replacing the top (>= instead of >).
newTop_TiesReplace(prevEvent, top, value, evntId) ==
    IF prevEvent # Null /\ prevEvent[1].value > 0
    THEN IF value >= prevEvent[1].value THEN Some(evntId) ELSE top
    ELSE Some(evntId)

\* The top-sale / top-bid comparison of handlePunkBought and handlePunkBidEntered.
newTop(prevEvent, top, value, evntId) ==
    IF prevEvent # Null /\ prevEvent[1].value > 0
    THEN IF value > prevEvent[1].value THEN Some(evntId) ELSE top
    ELSE Some(evntId)

\* saleIgnored testing the value only when a Bid exists (`bid &&` for `!bid &&`).
saleIgnored_BidRequired(hasBid, value) == hasBid /\ value = 0

\* `if (!bid && value.equals(BIGINT_ZERO)) return;`
saleIgnored(hasBid, value) == ~hasBid /\ value = 0

handlePunkBought(S, ev) ==
    LET punkBoughtTokenId == toString(ev.punkIndex)
        fromId == toHexString(ev.from)
        toId0  == toHexString(ev.to)
        evntId == getGlobalId(ev)
    IN
    With(getOrCreateAccount(S, fromId), LAMBDA S1 :
    With(getOrCreateAccount(S1, toId0), LAMBDA S2 :
        LET hasBid == Has(S2.bids, punkBoughtTokenId)
            bid    == S2.bids[punkBoughtTokenId]
            zeroBuyer == (toId0 = ZERO_ADDRESS)
            toId  == IF zeroBuyer /\ hasBid THEN bid.fromAccount ELSE toId0
            value == IF zeroBuyer /\ hasBid THEN bid.value ELSE ev.value
            removeBid ==
                \/ zeroBuyer
                \/ (hasBid /\ bidderIs(bid.fromAccount, toId0))
        IN
        With(IF zeroBuyer /\ hasBid THEN getOrCreateAccount(S2, bid.fromAccount) ELSE S2, LAMBDA S3 :
        With(setPunkNoLongerForSale(S3, punkBoughtTokenId, removeBid), LAMBDA S4 :
        With(updateOwnership(S4, ev.timestamp, punkBoughtTokenId, toId, fromId), LAMBDA S5 :
            IF saleIgnored(hasBid, value) THEN S5
            ELSE
            With(saveEvent(S5, ev, newEvent("Sale", ev, fromId, toId, value)), LAMBDA S6 :
            With(getOrCreateState(S6, ev.timestamp), LAMBDA state :
            With([state EXCEPT !.topSale =
                    newTop(loadPrevSaleEvent(S6, state.topSale), state.topSale, value, evntId)], LAMBDA state1 :
                LET newActiveListings ==
                        IF Includes(state1.activeListings, punkBoughtTokenId)
                        THEN FilterOut(state1.activeListings, punkBoughtTokenId)
                        ELSE state1.activeListings
                IN
                With([state1 EXCEPT !.activeListings = newActiveListings], LAMBDA state2 :
                    saveState(S6, [state2 EXCEPT !.floor  = getFloorFromActiveListings(S6, state2),
                                                 !.sales  = state2.sales + 1,
                                                 !.volume = state2.volume + value]))))))))))

\* isPrivateListing with the test inverted (private when the buyer is the zero address).
isPrivateListing_Inverted(toId) == toId = ZERO_ADDRESS

\* `if (toAccount.id != ZERO_ADDRESS) isPrivate = true;`
isPrivateListing(toId) == toId # ZERO_ADDRESS

handlePunkOffered(S, ev) ==
    LET punkOfferedTokenId == toString(ev.punkIndex)
        fromId == toHexString(ev.txFrom)
        toId   == toHexString(ev.to)
        isPrivate == isPrivateListing(toId)
        listing == [value |-> ev.value, isPrivate |-> isPrivate,
                    fromAccount |-> fromId, toAccount |-> toId]
        listingVal == ev.value
    IN
    With(getOrCreateAccount(S, fromId), LAMBDA S1 :
    With(getOrCreateAccount(S1, toId), LAMBDA S2 :
    With([S2 EXCEPT !.listings = Save(@, punkOfferedTokenId, listing)], LAMBDA S3 :
    With(saveEvent(S3, ev, newEvent("Offered", ev, fromId, toId, ev.value)), LAMBDA S4 :
    With(getOrCreateState(S4, ev.timestamp), LAMBDA state :
    With([state EXCEPT !.listings = state.listings + 1,
                       !.activeListings = Append(state.activeListings, punkOfferedTokenId)], LAMBDA state1 :
        saveState(S4, IF toId # ZERO_ADDRESS /\ listingVal # 0 /\ listingVal < state1.floor
                      THEN [state1 EXCEPT !.floor = listingVal]
                      ELSE state1)))))))

\* saveBid keeping an existing Bid of higher or equal value.
saveBid_KeepsHigher(S, id, ev, fromId) ==
    IF Has(S.bids, id) /\ S.bids[id].value >= ev.value THEN S
    ELSE [S EXCEPT !.bids = Save(@, id, [value |-> ev.value, fromAccount |-> fromId])]

\* `let bid = Bid.load(id); if (!bid) bid = new Bid(id); ...; bid.save();`
saveBid(S, id, ev, fromId) ==
    [S EXCEPT !.bids = Save(@, id, [value |-> ev.value, fromAccount |-> fromId])]

handlePunkBidEntered(S, ev) ==
    LET punkBidEnteredTokenId == toString(ev.punkIndex)
        fromId == toHexString(ev.from)
        evntId == getGlobalId(ev)
    IN
    With(getOrCreateAccount(S, fromId), LAMBDA S1 :
    With(saveBid(S1, punkBidEnteredTokenId, ev, fromId), LAMBDA S2 :
    With(saveEvent(S2, ev, newEvent("BidEntered", ev, fromId, ZERO_ADDRESS, ev.value)), LAMBDA S3 :
    With(getOrCreateState(S3, ev.timestamp), LAMBDA state :
    With([state EXCEPT !.topBid =
            newTop(loadPrevBidEvent(S3, state.topBid), state.topBid, ev.value, evntId)], LAMBDA state1 :
        saveState(S3, [state1 EXCEPT !.bids = state1.bids + 1]))))))

handlePunkBidWithdrawn(S, ev) ==
    LET punkBidWithdrawnTokenId == toString(ev.punkIndex)
        fromId == toHexString(ev.from)
    IN
    With(getOrCreateAccount(S, fromId), LAMBDA S1 :
    With(IF Has(S1.bids, punkBidWithdrawnTokenId)
         THEN [S1 EXCEPT !.bids = Remove(@, punkBidWithdrawnTokenId)] ELSE S1, LAMBDA S2 :
        saveEvent(S2, ev, newEvent("BidWithdrawn", ev, fromId, ZERO_ADDRESS, ev.value))))

\* isBuyTx never finding the Transfer of the transaction.
isBuyTx_Never(S, ev) == FALSE

\* `let transfer = Transfer.load(event.transaction.hash.toHexString()); if (transfer) isBuy = true;`
isBuyTx(S, ev) == Has(S.transfers, ev.txHash)

handlePunkNoLongerForSale(S, ev) ==
    LET punkNoLongerForSaleTokenId == toString(ev.punkIndex) IN
    With(setPunkNoLongerForSale(S, punkNoLongerForSaleTokenId, FALSE), LAMBDA S1 :
        \* transfer.tokenId is set on the loaded copy, which is never saved
        LET isBuy == isBuyTx(S1, ev) IN
        With(getOrCreateState(S1, ev.timestamp), LAMBDA state :
        With(IF ~isBuy
             THEN saveEvent(S1, ev, newEvent("OfferWithdrawn", ev, ZERO_ADDRESS, ZERO_ADDRESS, 0))
             ELSE S1, LAMBDA S2 :
        With(IF ~isBuy THEN [state EXCEPT !.delistings = state.delistings + 1] ELSE state, LAMBDA state1 :
            LET newActiveListings ==
                    IF Includes(state1.activeListings, punkNoLongerForSaleTokenId)
                    THEN FilterOut(state1.activeListings, punkNoLongerForSaleTokenId)
                    ELSE state1.activeListings
            IN
            With([state1 EXCEPT !.activeListings = newActiveListings], LAMBDA state2 :
                saveState(S2, [state2 EXCEPT !.floor = getFloorFromActiveListings(S2, state2)]))))))

\* The event dispatcher of subgraph.yaml (eventHandlers).
Handle(S, ev) ==
    CASE ev.kind = "Assign"              -> handleAssign(S, ev)
      [] ev.kind = "Transfer"            -> handleTransfer(S, ev)
      [] ev.kind = "PunkTransfer"        -> handlePunkTransfer(S, ev)
      [] ev.kind = "PunkOffered"         -> handlePunkOffered(S, ev)
      [] ev.kind = "PunkBidEntered"      -> handlePunkBidEntered(S, ev)
      [] ev.kind = "PunkBidWithdrawn"    -> handlePunkBidWithdrawn(S, ev)
      [] ev.kind = "PunkBought"          -> handlePunkBought(S, ev)
      [] ev.kind = "PunkNoLongerForSale" -> handlePunkNoLongerForSale(S, ev)

(* ------------------------------------------------------------------ *)
(* The state machine                                                   *)
(* ------------------------------------------------------------------ *)
VARIABLES
    accounts, punks, listings, bids, events, states, transfers,  \* the store
    now,        \* timestamp (bucket) of the block being delivered
    tx,         \* hash of the transaction being delivered
    logIndex,   \* log index of the next event
    steps,      \* steps taken since the initial store
    last        \* the event processed by the last step

storeVars == <<accounts, punks, listings, bids, events, states, transfers>>
vars == <<accounts, punks, listings, bids, events, states, transfers, now, tx, logIndex, steps, last>>

Store ==
    [accounts |-> accounts, punks |-> punks, listings |-> listings, bids |-> bids,
     events |-> events, states |-> states, transfers |-> transfers]

Event(kind, punkIndex, value, from, to, txFrom, txHash, li, timestamp) ==
    [kind |-> kind, punkIndex |-> punkIndex, value |-> value, from |-> from, to |-> to,
     txFrom |-> txFrom, txHash |-> txHash, logIndex |-> li, timestamp |-> timestamp]

\* An event of the transaction and block being delivered.
Incoming(kind, punkIndex, value, from, to, txFrom) ==
    Event(kind, punkIndex, value, from, to, txFrom, tx, logIndex, now)

NoEvent(kind) == Event(kind, 0, 0, 0, 0, 0, tx, logIndex, now)

\* The events source replayed from the start block: event k of the sequence
\* is delivered with log index k - 1.
RECURSIVE Replay(_, _)
Replay(seq, n) ==
    IF n = 0 THEN EmptyStore
    ELSE With(Replay(seq, n - 1), LAMBDA S : Handle(S, [seq[n] EXCEPT !.logIndex = n - 1]))

\* Event histories the initial stores are taken from: <<kind, punk, value, from, to, tx, timestamp>>.
H(t) == Event(t[1], t[2], t[3], t[4], t[5], 10, t[6], 0, t[7])

HistoryBid ==
    << H(<<"Assign", 1, 0, 0, 10, 1, 0>>),
       H(<<"PunkOffered", 1, 2, 0, 0, 2, 1>>),
       H(<<"PunkBidEntered", 1, 1, 183, 0, 3, 1>>) >>

HistoryMarket ==
    << H(<<"PunkOffered", 1, 2, 0, 0, 1, 0>>),
       H(<<"PunkOffered", 2, 2, 0, 0, 2, 0>>),
       H(<<"PunkOffered", 3, 2, 0, 0, 3, 0>>),
       H(<<"PunkOffered", 4, 0, 0, 0, 4, 0>>),
       H(<<"PunkOffered", 5, 2, 0, 0, 5, 0>>),
       H(<<"PunkOffered", 6, 1, 0, 0, 6, 0>>) >>

HistoryFloor ==
    HistoryMarket \o << H(<<"PunkNoLongerForSale", 6, 0, 0, 0, 7, 0>>) >>

Histories == { << >>, HistoryBid, HistoryMarket, HistoryFloor }

Commit(S) ==
    /\ accounts'  = S.accounts
    /\ punks'     = S.punks
    /\ listings'  = S.listings
    /\ bids'      = S.bids
    /\ events'    = S.events
    /\ states'    = S.states
    /\ transfers' = S.transfers

StoreIs(S) ==
    /\ accounts  = S.accounts
    /\ punks     = S.punks
    /\ listings  = S.listings
    /\ bids      = S.bids
    /\ events    = S.events
    /\ states    = S.states
    /\ transfers = S.transfers

Init ==
    \E h \in Histories :
        /\ StoreIs(Replay(h, Len(h)))
        /\ now = IF Len(h) = 0 THEN 0 ELSE h[Len(h)].timestamp
        /\ tx = IF Len(h) = 0 THEN 0 ELSE h[Len(h)].txHash + 1
        /\ logIndex = Len(h)
        /\ steps = 0
        /\ last = Event("Init", 0, 0, 0, 0, 0, 0, 0, 0)

\* One event is processed to completion before the next is admitted.
Deliver(ev, result) ==
    /\ steps < MaxSteps
    /\ \E S \in {result} : Commit(S)
    /\ last' = ev
    /\ logIndex' = logIndex + 1
    /\ steps' = steps + 1
    /\ UNCHANGED <<now, tx>>

Accounts == Address \ {0}

Claim ==
    \E p \in PunkIndex, to \in Accounts :
        LET ev == Incoming("Assign", p, 0, 0, to, to) IN Deliver(ev, handleAssign(Store, ev))

RawTransfer ==
    \E from \in {10}, to \in {183} :
        LET ev == Incoming("Transfer", 0, 0, from, to, from) IN Deliver(ev, handleTransfer(Store, ev))

AssetTransfer ==
    \E p \in PunkIndex, from \in Accounts, to \in Accounts :
        LET ev == Incoming("PunkTransfer", p, 0, from, to, from) IN Deliver(ev, handlePunkTransfer(Store, ev))

Offer ==
    \E p \in PunkIndex, minValue \in Values, to \in {0, 183}, offerer \in {10} :
        LET ev == Incoming("PunkOffered", p, minValue, 0, to, offerer) IN Deliver(ev, handlePunkOffered(Store, ev))

BidEntered ==
    \E p \in PunkIndex, value \in Values, from \in Accounts :
        LET ev == Incoming("PunkBidEntered", p, value, from, 0, from) IN Deliver(ev, handlePunkBidEntered(Store, ev))

BidWithdrawn ==
    \E p \in PunkIndex, value \in {1}, from \in {10} :
        LET ev == Incoming("PunkBidWithdrawn", p, value, from, 0, from) IN Deliver(ev, handlePunkBidWithdrawn(Store, ev))

Bought ==
    \E p \in PunkIndex, value \in {0, 2}, from \in {10}, to \in Address :
        LET ev == Incoming("PunkBought", p, value, from, to, to) IN Deliver(ev, handlePunkBought(Store, ev))

NoLongerForSale ==
    \E p \in PunkIndex :
        LET ev == Incoming("PunkNoLongerForSale", p, 0, 0, 0, 10) IN Deliver(ev, handlePunkNoLongerForSale(Store, ev))

\* The source moves on to the next transaction: of the same block, of the next
\* bucket, of the last bucket within the lookback of getOrCreateState, or of
\* the first bucket beyond it.
NewTx ==
    \E d \in {0, 1, LookbackCap, LookbackCap + 1} :
        /\ steps < MaxSteps
        /\ tx' = tx + 1
        /\ now' = now + d
        /\ logIndex' = logIndex + 1
        /\ steps' = steps + 1
        /\ last' = NoEvent("NewTx")
        /\ UNCHANGED storeVars

Next ==
    \/ Claim
    \/ RawTransfer
    \/ AssetTransfer
    \/ Offer
    \/ BidEntered
    \/ BidWithdrawn
    \/ Bought
    \/ NoLongerForSale
    \/ NewTx

Spec == Init /\ [][Next]_vars

(* ------------------------------------------------------------------ *)
(* getFloorFromActiveListings as a function of its inputs              *)
(* ------------------------------------------------------------------ *)
\* Longest active-listing array drawn.
MaxListed == 6

ListedIds == {"1", "2"}

RECURSIVE SeqsUpTo(_, _)
SeqsUpTo(ids, n) ==
    IF n = 0 THEN { << >> }
    ELSE LET shorter == SeqsUpTo(ids, n - 1)
         IN  shorter \cup { Append(q, id) : q \in {r \in shorter : Len(r) = n - 1}, id \in ids }

\* A State entity of bucket ts with the given floor and active listings.
StateWith(ts, floor, activeListings) ==
    [timestamp |-> ts, topBid |-> Null, topSale |-> Null, listings |-> 0, delistings |-> 0,
     bids |-> 0, sales |-> 0, volume |-> 0, floor |-> floor, owners |-> 0,
     activeListings |-> activeListings]

\* The store holds a Snapshot of bucket 2 with any active-listing array, any
\* Listing values, and Snapshots of buckets 1 and 0 or not.
InitFloor ==
    \E L \in SeqsUpTo(ListedIds, MaxListed), have \in SUBSET ListedIds,
       prev \in {Null} \cup {Some(v) : v \in Values}, older \in {Null, Some(2)} :
      \E value \in [have -> Values] :
        /\ accounts = << >>
        /\ punks = << >>
        /\ bids = << >>
        /\ events = << >>
        /\ transfers = << >>
        /\ listings = [id \in have |->
                         [value |-> value[id], isPrivate |-> FALSE,
                          fromAccount |-> "0xa", toAccount |-> ZERO_ADDRESS]]
        /\ states = (2 :> StateWith(2, 0, L))
                    @@ (IF prev = Null THEN << >> ELSE (1 :> StateWith(1, prev[1], << >>)))
                    @@ (IF older = Null THEN << >> ELSE (0 :> StateWith(0, older[1], << >>)))
        /\ now = 2
        /\ tx = 0
        /\ logIndex = 0
        /\ steps = 0
        /\ last = Event("Init", 0, 0, 0, 0, 0, 0, 0, 0)

\* `state.floor = getFloorFromActiveListings(state); state.save()`
RecomputeFloor ==
    /\ steps = 0
    /\ states' = Save(states, now, [states[now] EXCEPT !.floor = getFloorFromActiveListings(Store, states[now])])
    /\ steps' = 1
    /\ last' = NoEvent("RecomputeFloor")
    /\ UNCHANGED <<accounts, punks, listings, bids, events, transfers, now, tx, logIndex>>

NextFloor == RecomputeFloor

SpecFloor == InitFloor /\ [][NextFloor]_vars

(* ------------------------------------------------------------------ *)
(* Properties                                                          *)
(* ------------------------------------------------------------------ *)
\* The ids held by an account, as a set (empty when the account does not exist).
HeldSet(accountTable, id) ==
    IF Has(accountTable, id)
    THEN {accountTable[id].punks[i] : i \in 1..Len(accountTable[id].punks)}
    ELSE {}

\* Events that call updateOwnership.
OwnershipKinds == {"Assign", "PunkTransfer", "PunkBought"}

\* Sender and receiver of the updateOwnership call made for event ev; the
\* receiver is read back from the asset's owner field after the call.
SenderOf(ev) == IF ev.kind = "Assign" THEN ZERO_ADDRESS ELSE toHexString(ev.from)
ReceiverAfter(punkTable, ev) == punkTable[toString(ev.punkIndex)].owner

\* C1: the active-listing set of the current bucket's Snapshot contains no
\* asset id for which no Listing entity exists.
C1_ActiveListingsHaveListing ==
    Has(states, now) =>
        \A i \in 1..Len(states[now].activeListings) :
            Has(listings, states[now].activeListings[i])

\* C2: the held sets of any two different accounts are disjoint.
C2_HeldSetsDisjoint ==
    \A a, b \in DOMAIN accounts :
        a # b => HeldSet(accounts, a) \cap HeldSet(accounts, b) = {}

\* C3: no account's held set contains the same asset id more than once.
C3_NoDuplicateHolding ==
    \A a \in DOMAIN accounts :
        \A i, j \in 1..Len(accounts[a].punks) :
            accounts[a].punks[i] = accounts[a].punks[j] => i = j

\* C4: every call of transferOwnership(assetId, to, from) increments the
\* Snapshot's owner counter by one exactly when the receiver's held set was
\* empty before, and decrements it by one exactly when the sender's held set
\* becomes empty by the removal of assetId; both adjustments are independent.
C4_OwnerCounterStep ==
    [][ last'.kind \in OwnershipKinds =>
          LET assetId  == toString(last'.punkIndex)
              sender   == HeldSet(accounts, SenderOf(last'))
              receiver == HeldSet(accounts, ReceiverAfter(punks', last'))
              inc == IF receiver = {} THEN 1 ELSE 0
              dec == IF assetId \in sender /\ sender \ {assetId} = {} THEN 1 ELSE 0
          IN  states'[now].owners = getOrCreateState(Store, now).owners + inc - dec
      ]_vars

\* C5: when the sender holds the asset and differs from the receiver: from an
\* account holding exactly one asset to one holding none the owner count is
\* unchanged; between two accounts that each hold other assets it is
\* unchanged; to an account holding none while the sender still holds other
\* assets it grows by exactly one.
C5_OwnerCounterCases ==
    [][ last'.kind \in OwnershipKinds =>
          LET assetId    == toString(last'.punkIndex)
              from       == SenderOf(last')
              to         == ReceiverAfter(punks', last')
              sender     == HeldSet(accounts, from)
              receiver   == HeldSet(accounts, to)
              before     == getOrCreateState(Store, now).owners
              after      == states'[now].owners
          IN  (assetId \in sender /\ from # to) =>
                /\ (sender = {assetId} /\ receiver = {}) => after = before
                /\ (sender # {assetId} /\ receiver \ {assetId} # {}) => after = before
                /\ (sender # {assetId} /\ receiver = {}) => after = before + 1
      ]_vars

\* The floor of section 4.3 for a Snapshot, over a Listing table and a State table.
ExpectedFloor(listingTable, stateTable, state) ==
    LET L == state.activeListings
        positive == { listingTable[L[i]].value :
                        i \in { j \in 1..Len(L) : Has(listingTable, L[j]) /\ listingTable[L[j]].value > 0 } }
    IN  IF Len(L) < 5
        THEN IF Has(stateTable, state.timestamp - 1) THEN stateTable[state.timestamp - 1].floor ELSE 0
        ELSE IF positive = {} THEN 0
        ELSE CHOOSE m \in positive : \A v \in positive : m <= v

\* C6: recomputeFloor gives the floor of the immediately preceding bucket's
\* Snapshot (zero if there is none) when fewer than 5 ids are listed, and
\* otherwise the minimum strictly positive value among the listed ids whose
\* Listing exists (zero if there is none).
C6_RecomputeFloor ==
    last.kind = "RecomputeFloor" =>
        states[now].floor = ExpectedFloor(listings, states, states[now])

\* C6 witness: five or more ids listed, one of them with a zero-valued
\* Listing, the result the positive minimum and not the predecessor's floor.
C6_Witness ==
    /\ last.kind = "RecomputeFloor"
    /\ Len(states[now].activeListings) >= 5
    /\ states[now].floor = 1
    /\ Has(states, 1) /\ states[1].floor = 2
    /\ \E i \in 1..Len(states[now].activeListings) :
          /\ Has(listings, states[now].activeListings[i])
          /\ listings[states[now].activeListings[i]].value = 0

\* Events after which section 4.3 requires the floor to be recomputed.
FloorKinds == {"PunkOffered", "PunkBought", "PunkNoLongerForSale", "PunkTransfer"}

\* C7: immediately after any Offer, Bought, NoLongerForSale or AssetTransfer
\* event the current Snapshot's floor equals recomputeFloor of its resulting
\* active-listing set.
C7_FloorRecomputedAfterEvent ==
    [][ last'.kind \in FloorKinds =>
          /\ Has(states', now)
          /\ states'[now].floor = ExpectedFloor(listings', states', states'[now])
      ]_vars

\* C8: a bid (sale) becomes the Snapshot's top bid (top sale) unconditionally
\* when no top is referenced or the referenced top's value is not strictly
\* positive; otherwise it replaces the top only if its value is strictly
\* greater, so an equal value never replaces the top.
TopRule(oldTop, newTopRef, candidateId, candidateValue) ==
    IF oldTop = Null \/ ~Has(events, oldTop[1]) \/ events[oldTop[1]].value <= 0
    THEN newTopRef = Some(candidateId)
    ELSE IF candidateValue > events[oldTop[1]].value
         THEN newTopRef = Some(candidateId)
         ELSE newTopRef = oldTop

C8_TopRankRule ==
    [][ /\ last'.kind = "PunkBidEntered" =>
              TopRule(getOrCreateState(Store, now).topBid, states'[now].topBid,
                      getGlobalId(last'), last'.value)
        /\ (last'.kind = "PunkBought" /\ Has(events', getGlobalId(last'))) =>
              TopRule(getOrCreateState(Store, now).topSale, states'[now].topSale,
                      getGlobalId(last'), events'[getGlobalId(last')].value)
      ]_vars

\* C8 witness: a bid equal to the positive top bid has been entered and the
\* top is still the earlier event.
C8_Witness ==
    /\ last.kind = "PunkBidEntered"
    /\ last.value > 0
    /\ states[now].topBid # Null
    /\ states[now].topBid # Some(getGlobalId(last))
    /\ events[states[now].topBid[1]].value = last.value

\* C9: a Bought event with the zero address as buyer while a Bid exists:
\* afterwards the Bid and the Listing are deleted, the owner is the bidder, a
\* Sale Event with the Bid's value and toAccount = bidder is recorded, sales
\* has grown by 1 and volume by the Bid's value.
C9_ZeroBuyerTakesBid ==
    [][ (/\ last'.kind = "PunkBought"
         /\ toHexString(last'.to) = ZERO_ADDRESS
         /\ Has(bids, toString(last'.punkIndex))) =>
          LET id  == toString(last'.punkIndex)
              bid == bids[id]
              evntId == getGlobalId(last')
              before == getOrCreateState(Store, now)
          IN  /\ ~Has(bids', id)
              /\ ~Has(listings', id)
              /\ punks'[id].owner = bid.fromAccount
              /\ Has(events', evntId)
              /\ events'[evntId].type = "Sale"
              /\ events'[evntId].value = bid.value
              /\ events'[evntId].toAccount = bid.fromAccount
              /\ states'[now].sales = before.sales + 1
              /\ states'[now].volume = before.volume + bid.value
      ]_vars

\* C9 witness: the scenario of section 8: a zero-value Bought with zero buyer
\* was recorded as a Sale of the Bid's value to the bidder.
C9_Witness ==
    /\ last.kind = "PunkBought"
    /\ last.to = 0
    /\ last.value = 0
    /\ Has(events, getGlobalId(last))
    /\ events[getGlobalId(last)].type = "Sale"
    /\ events[getGlobalId(last)].value = 1
    /\ events[getGlobalId(last)].toAccount = "0xb7"
    /\ ~Has(bids, toString(last.punkIndex))
    /\ states[now].volume > 0

\* C10: a Bought event with value zero when no Bid exists adds no Event
\* record and leaves the Snapshot's sales, volume and topSale unchanged.
C10_ZeroSaleWithoutBidIgnored ==
    [][ (/\ last'.kind = "PunkBought"
         /\ last'.value = 0
         /\ ~Has(bids, toString(last'.punkIndex))) =>
          LET before == getOrCreateState(Store, now)
          IN  /\ events' = events
              /\ states'[now].sales = before.sales
              /\ states'[now].volume = before.volume
              /\ states'[now].topSale = before.topSale
      ]_vars

\* C10 witness: such a Bought event was processed with a non-zero buyer and
\* with the zero buyer, in a Snapshot that already counts a sale.
C10_Witness ==
    /\ last.kind = "PunkBought"
    /\ last.value = 0
    /\ ~Has(events, getGlobalId(last))
    /\ punks[toString(last.punkIndex)].owner = toHexString(last.to)
    /\ states[now].sales > 0

\* C11: a NoLongerForSale event always deletes the Listing and removes the
\* asset id from the current Snapshot's active-listing set; it records an
\* OfferWithdrawn Event and increments delistings exactly when no RawTransfer
\* with the same transaction hash was processed earlier, and otherwise records
\* no Event and leaves delistings unchanged.
C11_DelistEventUnlessBuy ==
    [][ last'.kind = "PunkNoLongerForSale" =>
          LET id     == toString(last'.punkIndex)
              evntId == getGlobalId(last')
              before == getOrCreateState(Store, now)
              afterTransfer == Has(transfers, last'.txHash)
          IN  /\ ~Has(listings', id)
              /\ ~Includes(states'[now].activeListings, id)
              \* a RawTransfer delivered just before belongs to the same transaction
              /\ ((last.kind = "Transfer" /\ last.txHash = last'.txHash) => afterTransfer)
              /\ IF afterTransfer
                 THEN /\ events' = events
                      /\ states'[now].delistings = before.delistings
                 ELSE /\ Has(events', evntId)
                      /\ ~Has(events, evntId)
                      /\ events'[evntId].type = "OfferWithdrawn"
                      /\ events'[evntId].tokenId = last'.punkIndex
                      /\ states'[now].delistings = before.delistings + 1
      ]_vars

\* C11 witness: a listed asset was delisted in a transaction whose RawTransfer
\* had been processed, no Event was recorded and four listings stay active.
C11_Witness ==
    /\ last.kind = "PunkNoLongerForSale"
    /\ Has(transfers, last.txHash)
    /\ ~Has(events, getGlobalId(last))
    /\ ~Has(listings, toString(last.punkIndex))
    /\ Len(states[now].activeListings) = 4
    /\ states[now].delistings = 1

\* C12: an Offer event creates or replaces the Listing of the asset with
\* value = minValue and isPrivate true exactly when the restricted buyer is
\* non-zero, increments the Snapshot's listings counter by one, leaves the
\* asset id in the Snapshot's active-listing set and records an Offered Event.
C12_OfferMakesListing ==
    [][ last'.kind = "PunkOffered" =>
          LET id     == toString(last'.punkIndex)
              evntId == getGlobalId(last')
              before == getOrCreateState(Store, now)
          IN  /\ Has(listings', id)
              /\ listings'[id].value = last'.value
              /\ listings'[id].isPrivate = (last'.to # 0)
              /\ states'[now].listings = before.listings + 1
              /\ Includes(states'[now].activeListings, id)
              /\ Has(events', evntId)
              /\ ~Has(events, evntId)
              /\ events'[evntId].type = "Offered"
              /\ events'[evntId].tokenId = last'.punkIndex
              /\ events'[evntId].value = last'.value
      ]_vars

\* C12 witness: a private Offer replaced the public Listing of the asset in a
\* Snapshot that already counted a listing.
C12_Witness ==
    /\ last.kind = "PunkOffered"
    /\ last.to # 0
    /\ listings[toString(last.punkIndex)].isPrivate
    /\ listings[toString(last.punkIndex)].value = last.value
    /\ last.value # 2
    /\ states[now].listings >= 2
    /\ events[getGlobalId(last)].type = "Offered"

\* The BidEntered Event records of an asset.
BidEnteredIds(id) ==
    { e \in DOMAIN events : events[e].type = "BidEntered" /\ toString(events[e].tokenId) = id }

\* The most recently delivered of a non-empty set of Event ids.
MostRecent(es) == CHOOSE e \in es : \A f \in es : f[2] <= e[2]

\* C13: each asset id has at most one Listing and at most one Bid (both are
\* keyed by the asset id), and the Bid's value and bidder are always those of
\* the most recent BidEntered event of that asset.
C13_BidIsLatestBidEntered ==
    /\ DOMAIN listings \subseteq { toString(p) : p \in 1..6 }
    /\ DOMAIN bids \subseteq { toString(p) : p \in 1..6 }
    /\ \A id \in DOMAIN bids :
         /\ BidEnteredIds(id) # {}
         /\ bids[id].value = events[MostRecent(BidEnteredIds(id))].value
         /\ bids[id].fromAccount = events[MostRecent(BidEnteredIds(id))].fromAccount

\* C13 witness: a second BidEntered event of an asset, lower and by another
\* account than the first, replaced the Bid.
C13_Witness ==
    /\ last.kind = "PunkBidEntered"
    /\ Cardinality(BidEnteredIds(toString(last.punkIndex))) >= 2
    /\ bids[toString(last.punkIndex)].value = last.value
    /\ bids[toString(last.punkIndex)].fromAccount = toHexString(last.from)
    /\ \E e \in BidEnteredIds(toString(last.punkIndex)) :
         /\ events[e].value > last.value
         /\ events[e].fromAccount # toHexString(last.from)

\* The buckets of existing Snapshots among the LookbackCap buckets before b.
Lookback(b) == { c \in DOMAIN states : b - LookbackCap <= c /\ c < b }

\* The nearest of them.
Nearest(b) == CHOOSE c \in Lookback(b) : \A d \in Lookback(b) : d <= c

\* C14: when the first event of a bucket creates its Snapshot, the period
\* counters start from zero and topBid/topSale from absent (so that after the
\* creating event they hold that event's contribution only), and the owner
\* count and the active-listing set are those of the nearest existing Snapshot
\* among the 30 preceding buckets, zero and empty when there is none; an
\* existing Snapshot is never re-initialised.
C14_SnapshotCreation ==
    [][ IF ~Has(states, now') /\ Has(states', now')
        THEN LET created == states'[now']
                 evntId  == getGlobalId(last')
                 type    == IF Has(events', evntId) /\ ~Has(events, evntId)
                            THEN events'[evntId].type ELSE "none"
                 prevOwners   == IF Lookback(now') = {} THEN 0
                                 ELSE states[Nearest(now')].owners
                 prevListings == IF Lookback(now') = {} THEN << >>
                                 ELSE states[Nearest(now')].activeListings
                 id == toString(last'.punkIndex)
             IN  /\ created.timestamp = now'
                 /\ created.bids = IF type = "BidEntered" THEN 1 ELSE 0
                 /\ created.listings = IF type = "Offered" THEN 1 ELSE 0
                 /\ created.delistings = IF type = "OfferWithdrawn" THEN 1 ELSE 0
                 /\ created.sales = IF type = "Sale" THEN 1 ELSE 0
                 /\ created.volume = IF type = "Sale" THEN events'[evntId].value ELSE 0
                 /\ created.topBid = IF type = "BidEntered" THEN Some(evntId) ELSE Null
                 /\ created.topSale = IF type = "Sale" THEN Some(evntId) ELSE Null
                 /\ IF last'.kind \in OwnershipKinds
                    THEN created.owners \in {prevOwners - 1, prevOwners, prevOwners + 1}
                    ELSE created.owners = prevOwners
                 /\ FilterOut(created.activeListings, id) = FilterOut(prevListings, id)
        ELSE Has(states, now') =>
               /\ Has(states', now')
               /\ states'[now'].timestamp = states[now'].timestamp
               /\ states'[now'].bids >= states[now'].bids
               /\ states'[now'].listings >= states[now'].listings
               /\ states'[now'].delistings >= states[now'].delistings
               /\ states'[now'].sales >= states[now'].sales
               /\ states'[now'].volume >= states[now'].volume
               /\ (states[now'].topBid # Null => states'[now'].topBid # Null)
               /\ (states[now'].topSale # Null => states'[now'].topSale # Null)
      ]_vars

\* C14 witness: a BidEntered event created the Snapshot of a bucket whose two
\* preceding buckets hold Snapshots with different active-listing sets, and
\* the new Snapshot carries those of the nearer one.
C14_Witness ==
    /\ last.kind = "PunkBidEntered"
    /\ Has(states, now) /\ Has(states, now - 1) /\ Has(states, now - 2)
    /\ states[now - 1].activeListings # states[now - 2].activeListings
    /\ states[now].activeListings = states[now - 1].activeListings
    /\ states[now].owners = 1
    /\ states[now].bids = 1
    /\ states[now - 1].bids = 1

\* C15: the Event log is append-only: a step never modifies or deletes an
\* Event record already written, and an event that records an Event writes it
\* under an id no earlier event has used.
C15_EventLogAppendOnly ==
    [][ /\ \A e \in DOMAIN events : Has(events', e) /\ events'[e] = events[e]
        /\ (DOMAIN events') \ (DOMAIN events) \subseteq {getGlobalId(last')}
        /\ (last'.kind \in {"Assign", "PunkOffered", "PunkBidEntered", "PunkBidWithdrawn"}
              => ~Has(events, getGlobalId(last')) /\ Has(events', getGlobalId(last')))
      ]_vars

\* C15 witness: two events of one transaction each left their own Event record.
C15_Witness ==
    /\ last.kind = "PunkBidWithdrawn"
    /\ Has(events, getGlobalId(last))
    /\ \E e \in DOMAIN events :
         /\ e # getGlobalId(last)
         /\ e[1] = last.txHash
         /\ events[e].type = "Offered"

\* C16: when an Offer is public (restricted buyer zero), its value is non-zero
\* and strictly below the current Snapshot's floor, the floor after the Offer
\* equals the offer's value.
C16_PublicOfferLowersFloor ==
    [][ (/\ last'.kind = "PunkOffered"
         /\ toHexString(last'.to) = ZERO_ADDRESS
         /\ last'.value # 0
         /\ last'.value < getOrCreateState(Store, now).floor) =>
          states'[now].floor = last'.value
      ]_vars

\* C17: on a Bought event the Listing is always deleted; with a non-zero buyer
\* an existing Bid is deleted exactly when the buyer equals the Bid's bidder
\* (compared case-insensitively), so a Bid by another account survives; with
\* the zero buyer the Bid is always deleted.
C17_BoughtClosesListingAndOwnBid ==
    [][ last'.kind = "PunkBought" =>
          LET id    == toString(last'.punkIndex)
              buyer == toHexString(last'.to)
          IN  /\ ~Has(listings', id)
              /\ IF ~Has(bids, id) THEN ~Has(bids', id)
                 ELSE IF \/ buyer = ZERO_ADDRESS
                         \/ toLowerCase(bids[id].fromAccount) = toLowerCase(buyer)
                 THEN ~Has(bids', id)
                 ELSE Has(bids', id) /\ bids'[id] = bids[id]
      ]_vars

\* C17 witness: a listed asset with a Bid was bought by a non-zero account
\* other than the bidder: the Listing is gone and the Bid is still there.
C17_Witness ==
    /\ last.kind = "PunkBought"
    /\ last.to # 0
    /\ Has(bids, toString(last.punkIndex))
    /\ bids[toString(last.punkIndex)].fromAccount # toHexString(last.to)
    /\ ~Has(listings, toString(last.punkIndex))
    /\ \E e \in DOMAIN events :
         events[e].type = "Offered" /\ events[e].tokenId = last.punkIndex

\* C18: on an AssetTransfer event the Listing is always deleted, the asset id
\* is removed from the current Snapshot's active-listing set, an existing Bid
\* is deleted exactly when the receiver equals the Bid's bidder, and afterwards
\* the asset's owner is the receiver.
C18_TransferClosesListingAndOwnBid ==
    [][ last'.kind = "PunkTransfer" =>
          LET id       == toString(last'.punkIndex)
              receiver == toHexString(last'.to)
          IN  /\ ~Has(listings', id)
              /\ ~Includes(states'[now].activeListings, id)
              /\ IF ~Has(bids, id) THEN ~Has(bids', id)
                 ELSE IF toLowerCase(bids[id].fromAccount) = toLowerCase(receiver)
                 THEN ~Has(bids', id)
                 ELSE Has(bids', id) /\ bids'[id] = bids[id]
              /\ punks'[id].owner = receiver
      ]_vars

\* C18 witness: a listed asset was transferred to the account whose Bid it
\* carried: Listing and Bid are gone and the receiver owns the asset.
C18_Witness ==
    /\ last.kind = "PunkTransfer"
    /\ ~Has(bids, toString(last.punkIndex))
    /\ ~Has(listings, toString(last.punkIndex))
    /\ punks[toString(last.punkIndex)].owner = toHexString(last.to)
    /\ \E e \in BidEnteredIds(toString(last.punkIndex)) :
         events[e].fromAccount = toHexString(last.to)
    /\ \E e \in DOMAIN events :
         events[e].type = "Offered" /\ events[e].tokenId = last.punkIndex

\* C19: an asset's wrapped flag is true exactly while its owner is the
\* wrapper account, whichever event kind (Claim, AssetTransfer, Bought) moved
\* the asset.
C19_WrappedIffOwnedByWrapper ==
    \A id \in DOMAIN punks :
        punks[id].wrapped <=> (punks[id].owner = WRAPPER_ADDRESS)

\* C20: after a NoLongerForSale event processed in a transaction whose
\* RawTransfer was processed earlier, the persisted Transfer entity of that
\* transaction holds the asset id.
C20_TransferHoldsAssetId ==
    (last.kind = "PunkNoLongerForSale" /\ Has(transfers, last.txHash)) =>
        transfers[last.txHash].tokenId = Some(toString(last.punkIndex))

\* The Event records of a type logged in bucket b.
EventsOf(b, type) ==
    { e \in DOMAIN events : events[e].blockTimestamp = b /\ events[e].type = type }

\* The sum of the values of a set of Event records.
RECURSIVE SumValues(_)
SumValues(es) ==
    IF es = {} THEN 0
    ELSE LET e == CHOOSE x \in es : TRUE
         IN  events[e].value + SumValues(es \ {e})

\* C21: in every bucket's Snapshot, bids is the number of BidEntered Events
\* logged in that bucket, listings the number of Offered Events, delistings
\* the number of OfferWithdrawn Events, sales the number of Sale Events and
\* volume the sum of the values of those Sale Events; as the log only grows,
\* no BidWithdrawn event or bid removal decreases a counter.
C21_CountersMatchLog ==
    \A b \in DOMAIN states :
        /\ states[b].bids = Cardinality(EventsOf(b, "BidEntered"))
        /\ states[b].listings = Cardinality(EventsOf(b, "Offered"))
        /\ states[b].delistings = Cardinality(EventsOf(b, "OfferWithdrawn"))
        /\ states[b].sales = Cardinality(EventsOf(b, "Sale"))
        /\ states[b].volume = SumValues(EventsOf(b, "Sale"))

\* C21 witness: a bucket that counts a listing, a bid and a sale of value 2
\* has just processed a BidWithdrawn event.
C21_Witness ==
    /\ last.kind = "PunkBidWithdrawn"
    /\ EventsOf(now, "BidWithdrawn") # {}
    /\ Has(states, now)
    /\ states[now].listings = 1
    /\ states[now].bids = 1
    /\ states[now].sales = 1
    /\ states[now].volume = 2

\* The accounts whose held set is non-empty.
Holders == { a \in DOMAIN accounts : HeldSet(accounts, a) # {} }

\* C22: the owner count of the current bucket's Snapshot equals the number of
\* accounts whose held set is non-empty, and is never negative, across bucket
\* changes, self-transfers and transfers whose sender does not hold the asset.
C22_OwnersCountsHolders ==
    Has(states, now) =>
        /\ states[now].owners = Cardinality(Holders)
        /\ states[now].owners >= 0

\* C23: no Snapshot's active-listing set contains the same asset id more than
\* once; a second Offer for an already listed asset adds no second entry.
C23_ActiveListingsDistinct ==
    \A b \in DOMAIN states :
        \A i, j \in 1..Len(states[b].activeListings) :
            states[b].activeListings[i] = states[b].activeListings[j] => i = j

\* The greatest value among the Event records of a type logged in bucket b.
MaxValue(b, type) ==
    CHOOSE v \in { events[e].value : e \in EventsOf(b, type) } :
        \A e \in EventsOf(b, type) : events[e].value <= v

\* top references an Event of the type logged in bucket b with the greatest value.
IsTopOf(top, b, type) ==
    top # Null =>
        /\ Has(events, top[1])
        /\ events[top[1]].type = type
        /\ events[top[1]].blockTimestamp = b
        /\ events[top[1]].value = MaxValue(b, type)

\* C24: in every bucket's Snapshot, topBid, when present, references an
\* existing BidEntered Event logged in that bucket whose value is the maximum
\* over the BidEntered Events of the bucket, and topSale likewise a Sale Event
\* of the bucket with the maximum Sale value; as the log only grows, the value
\* of the referenced top never decreases within a bucket.
C24_TopIsBucketMaximum ==
    \A b \in DOMAIN states :
        /\ IsTopOf(states[b].topBid, b, "BidEntered")
        /\ IsTopOf(states[b].topSale, b, "Sale")

\* C24 witness: a bucket logged two BidEntered Events, the later one lower than
\* the earlier, and its topBid references the earlier, higher one.
C24_Witness ==
    /\ last.kind = "PunkBidEntered"
    /\ Has(states, now)
    /\ Cardinality(EventsOf(now, "BidEntered")) >= 2
    /\ states[now].topBid # Null
    /\ states[now].topBid # Some(getGlobalId(last))
    /\ events[states[now].topBid[1]].value > last.value

====
